---- MODULE Spec2Model ----
(***************************************************************************)
(* pyvista.core.composite.MultiBlock: the ordered, dual-indexed container  *)
(* of datasets.  The model follows src/pyvista/core/composite.py: every    *)
(* method is an operator that takes the container (its blocks and its      *)
(* _refs table) and returns the container after the call together with the *)
(* exception raised (NoErr when none) and the value returned.              *)
(*                                                                         *)
(* A block is a record [data, name]: data is a dataset identity or None,   *)
(* name is a string or None (vtkCompositeDataSet.NAME() not set).          *)
(* Positions are 0-based as in the source; blocks[i + 1] is block i.       *)
(***************************************************************************)
EXTENDS Integers, Sequences, FiniteSets, TLC

\* ------------------------------------------------------------------ bounds
\* Longest container a run builds.
MaxLen == 3
\* Longest container a run builds when every mutator is enabled (SpecOps).
MaxAll == 2
\* Longest payload sequence handed to a slice assignment.
MaxData == 2
\* Longest nested container.
MaxNest == 1

\* ------------------------------------------------------------------ values
\* Python's None, as a payload and as a block name.
None == "None"
\* Dataset identities (memory_address): d1 has points, d2 is an empty mesh.
Data == {"d1", "d2"}
EmptyData == {"d2"}
Payload == Data \cup {None}
\* The container itself, handed to one of its own methods as the payload.
SelfRef == "self"
\* Identities of MultiBlock objects stored as blocks (nested containers).
\* c.heap maps each to its own blocks and _refs; m1 may hold m2.
Nested == {"m1", "m2"}
NoHeap == [m \in Nested |-> [blocks |-> <<>>, refs |-> {}]]
\* Names a caller passes explicitly.
ExplicitNames == {"n"}
NameArg == ExplicitNames \cup {None}

NoErr == "none"

\* An optional integer (a slice's start, stop, step): <<>> is None, <<v>> is v.
NoInt == <<>>

\* ------------------------------------------------------------------ results
Ok(c) == [c |-> c, err |-> NoErr, ret |-> None]
Ret(c, v) == [c |-> c, err |-> NoErr, ret |-> v]
Raise(c, e) == [c |-> c, err |-> e, ret |-> None]
\* Run step F on the container a call left, unless that call raised.
Then(r, F(_)) == IF r.err # NoErr THEN r ELSE F(r.c)

\* ------------------------------------------------------------------ helpers
n_blocks(c) == Len(c.blocks)

\* range(n)[i]: the position of integer index i, IndexError outside [-n, n).
InRange(n, i) == -n <= i /\ i < n
Norm(n, i) == IF i < 0 THEN n + i ELSE i

Digit == <<"0", "1", "2", "3", "4", "5", "6", "7", "8", "9">>
\* f'Block-{i:02}'
DefaultName(i) ==
  IF i < 10 THEN "Block-0" \o Digit[i + 1]
  ELSE "Block-" \o Digit[(i \div 10) + 1] \o Digit[(i % 10) + 1]

\* vtkMultiBlockDataSet.SetNumberOfBlocks through the n_blocks setter: new
\* blocks are null and unnamed, a smaller n truncates; _refs is not touched.
set_n_blocks(c, n) ==
  [c EXCEPT !.blocks =
     [k \in 1..n |-> IF k <= Len(c.blocks) THEN c.blocks[k]
                     ELSE [data |-> None, name |-> None]]]

get_block_name(c, index) ==
  IF ~InRange(n_blocks(c), index) THEN Raise(c, "IndexError")
  ELSE Ret(c, c.blocks[Norm(n_blocks(c), index) + 1].name)

set_block_name(c, index, name) ==
  IF name = None THEN Ok(c)
  ELSE IF ~InRange(n_blocks(c), index) THEN Raise(c, "IndexError")
  ELSE Ok([c EXCEPT !.blocks[Norm(n_blocks(c), index) + 1].name = name])

keys(c) == [k \in 1..n_blocks(c) |-> c.blocks[k].name]

\* get_index_by_name that keeps the last match of the scan.
get_index_by_name_last(c, name) ==
  LET hits == {i \in 0..(n_blocks(c) - 1) : c.blocks[i + 1].name = name}
  IN IF hits = {} THEN Raise(c, "KeyError")
     ELSE Ret(c, CHOOSE i \in hits : \A j \in hits : j <= i)

get_index_by_name(c, name) ==
  LET hits == {i \in 0..(n_blocks(c) - 1) : c.blocks[i + 1].name = name}
  IN IF hits = {} THEN Raise(c, "KeyError")
     ELSE Ret(c, CHOOSE i \in hits : \A j \in hits : i <= j)

\* __getitem__ that bounds-checks a negative index but does not move it to
\* n + index.
getitem_unnormalised(c, index) ==
  IF index < -n_blocks(c) \/ index >= n_blocks(c) THEN Raise(c, "IndexError")
  ELSE Ret(c, c.blocks[IF index < 0 THEN -index ELSE index + 1].data)

\* __getitem__ with an integer index.
getitem(c, index) ==
  IF index < -n_blocks(c) \/ index >= n_blocks(c) THEN Raise(c, "IndexError")
  ELSE Ret(c, c.blocks[Norm(n_blocks(c), index) + 1].data)

getitem_str(c, name) ==
  LET r == get_index_by_name(c, name)
  IN IF r.err # NoErr THEN r ELSE getitem(c, r.ret)

\* get(name, default): a KeyError of the lookup becomes the default.
get(c, name, default) ==
  LET r == getitem_str(c, name)
  IN IF r.err = "KeyError" THEN Ret(c, default) ELSE r

\* _remove_ref that forgets to pop the entry.
remove_ref_kept(c, index) ==
  LET r == getitem(c, index)
  IN IF r.err # NoErr THEN r ELSE Ok(c)

\* _remove_ref: drop the _refs entry of the dataset at index, whatever other
\* block holds the same dataset.
remove_ref(c, index) ==
  LET r == getitem(c, index)
  IN IF r.err # NoErr THEN r
     ELSE IF r.ret # None THEN Ok([c EXCEPT !.refs = @ \ {r.ret}])
     ELSE Ok(c)

\* The single-block store that names a block only when it has no name yet.
set_single_sticky(c, i, data, name) ==
  IF ~InRange(n_blocks(c), i) THEN Raise(c, "IndexError")
  ELSE
    LET p == Norm(n_blocks(c), i)
        c1 == IF c.blocks[p + 1].data # None THEN remove_ref(c, p).c ELSE c
        c2 == [c1 EXCEPT !.blocks[p + 1].data = data]
        c3 == IF data # None THEN [c2 EXCEPT !.refs = @ \cup {data}] ELSE c2
    IN IF name = None /\ c.blocks[p + 1].name # None THEN Ok(c3)
       ELSE set_block_name(c3, p, IF name = None THEN DefaultName(p) ELSE name)

\* __setitem__, lines 717-735: the single-block store.  name is None for an
\* integer index and the looked-up name for a string index.
set_single(c, i, data, name) ==
  IF ~InRange(n_blocks(c), i) THEN Raise(c, "IndexError")
  ELSE
    LET p == Norm(n_blocks(c), i)
        c1 == IF c.blocks[p + 1].data # None THEN remove_ref(c, p).c ELSE c
        c2 == [c1 EXCEPT !.blocks[p + 1].data = data]
        c3 == IF data # None THEN [c2 EXCEPT !.refs = @ \cup {data}] ELSE c2
    IN set_block_name(c3, p, IF name = None THEN DefaultName(p) ELSE name)

\* c[i] = data
setitem(c, i, data) == set_single(c, i, data, None)

\* append that leaves the new block under its default name.
append_default_named(c, dataset, name) ==
  IF dataset = SelfRef THEN Raise(c, "ValueError")
  ELSE setitem(set_n_blocks(c, n_blocks(c) + 1), n_blocks(c), dataset)

\* append that grows the container before it looks at the dataset.
append_grow_first(c, dataset, name) ==
  LET index == n_blocks(c)
      c1 == set_n_blocks(c, n_blocks(c) + 1)
  IN IF dataset = SelfRef THEN Raise(c1, "ValueError")
     ELSE Then(setitem(c1, index, dataset),
               LAMBDA c2 : set_block_name(c2, index, name))

\* append(dataset, name): the container itself is refused before anything
\* is changed.
append(c, dataset, name) ==
  IF dataset = SelfRef THEN Raise(c, "ValueError")
  ELSE
    LET index == n_blocks(c)
        c1 == set_n_blocks(c, n_blocks(c) + 1)
    IN Then(setitem(c1, index, dataset),
            LAMBDA c2 : set_block_name(c2, index, name))

\* c[name] = data that never looks the name up.
setitem_str_append(c, name, data) == append(c, data, name)

\* c[name] = data, lines 694-700.
setitem_str(c, name, data) ==
  LET r == get_index_by_name(c, name)
  IN IF r.err # NoErr THEN append(c, data, name)
     ELSE set_single(c, r.ret, data, name)

\* vtkMultiBlockDataSet.RemoveBlock: the block and its metadata leave together
\* and the later blocks close the gap.  A negative block number does not fit
\* the unsigned parameter: nothing is removed.
RemoveBlock(c, index) ==
  IF index < 0 THEN Raise(c, "OverflowError")
  ELSE IF index >= n_blocks(c) THEN Ok(c)
  ELSE Ok([c EXCEPT !.blocks =
             SubSeq(c.blocks, 1, index) \o SubSeq(c.blocks, index + 2, Len(c.blocks))])

\* del c[index], integer index
delitem(c, index) ==
  Then(remove_ref(c, index), LAMBDA c1 : RemoveBlock(c1, index))

\* del c[name]
delitem_str(c, name) ==
  LET r == get_index_by_name(c, name)
  IN IF r.err # NoErr THEN r ELSE delitem(c, r.ret)

\* "for block in ...: self.append(block)": the loop of __init__ over a list
\* and of extend over an iterable, from element k on.
RECURSIVE append_each(_, _, _)
append_each(c, datasets, k) ==
  IF k > Len(datasets) THEN Ok(c)
  ELSE Then(append(c, datasets[k], None),
            LAMBDA c1 : append_each(c1, datasets, k + 1))

\* extend(datasets), datasets an iterable that is not a MultiBlock.
extend(c, datasets) == append_each(c, datasets, 1)

\* extend(datasets), datasets a MultiBlock, lines 491-493: zip draws a key
\* from the list keys() returned, then a block from the iteration over
\* datasets, which reads datasets[k] when it is asked for it; datasets may
\* be the container itself (other.kind = "self").
RECURSIVE extend_zip(_, _, _, _)
extend_zip(c, other_keys, other, k) ==
  IF k >= Len(other_keys) THEN Ok(c)
  ELSE LET data == IF other.kind = "self" THEN getitem(c, k)
                   ELSE IF k < Len(other.blocks) THEN Ret(c, other.blocks[k + 1].data)
                   ELSE Raise(c, "IndexError")
       IN IF data.err # NoErr THEN Ok(c)
          ELSE Then(append(c, data.ret, other_keys[k + 1]),
                    LAMBDA c1 : extend_zip(c1, other_keys, other, k + 1))

extend_multiblock(c, other) ==
  extend_zip(c, IF other.kind = "self" THEN keys(c)
                ELSE [k \in 1..Len(other.blocks) |-> other.blocks[k].name],
             other, 0)
\* MultiBlock(list): a new container, filled by appending.
init_list(fresh, datasets) == append_each(fresh, datasets, 1)
\* insert(index, dataset, name), lines 806-814.  insert_shift is the loop
\* "for i in reversed(range(index, n_blocks - 1))", entered at the highest i.
RECURSIVE insert_shift(_, _, _)
insert_shift(c, i, index) ==
  IF i < index THEN Ok(c)
  ELSE
    LET g == getitem(c, i)
        r1 == IF g.err # NoErr THEN g ELSE setitem(c, i + 1, g.ret)
        nm == Then(r1, LAMBDA c1 : get_block_name(c1, i))
        r2 == IF nm.err # NoErr THEN nm ELSE set_block_name(nm.c, i + 1, nm.ret)
    IN Then(r2, LAMBDA c2 : insert_shift(c2, i - 1, index))

insert(c, index, dataset, name) ==
  IF ~InRange(n_blocks(c), index) THEN Raise(c, "IndexError")
  ELSE
    LET p == Norm(n_blocks(c), index)
        c1 == set_n_blocks(c, n_blocks(c) + 1)
        r1 == insert_shift(c1, n_blocks(c1) - 2, p)
        r2 == Then(r1, LAMBDA c2 : setitem(c2, p, dataset))
    IN Then(r2, LAMBDA c3 : set_block_name(c3, p, name))

\* pop(index): an integer index is normalised first, then read and deleted.
pop(c, index) ==
  IF ~InRange(n_blocks(c), index) THEN Raise(c, "IndexError")
  ELSE
    LET p == Norm(n_blocks(c), index)
        g == getitem(c, p)
        d == Then(g, LAMBDA c1 : delitem(c1, p))
    IN IF d.err # NoErr THEN d ELSE Ret(d.c, g.ret)

\* pop(name)
pop_str(c, name) ==
  LET g == getitem_str(c, name)
      d == Then(g, LAMBDA c1 : delitem_str(c1, name))
  IN IF d.err # NoErr THEN d ELSE Ret(d.c, g.ret)

\* replace(index, dataset)
replace(c, index, dataset) ==
  LET nm == get_block_name(c, index)
      r1 == Then(nm, LAMBDA c1 : setitem(c1, index, dataset))
  IN Then(r1, LAMBDA c2 : set_block_name(c2, index, nm.ret))

\* reverse(): the swap loop over range(n // 2), then the names, reversed.
RECURSIVE reverse_swap(_, _, _)
reverse_swap(c, i, n) ==
  IF i >= n \div 2 THEN Ok(c)
  ELSE
    LET a == getitem(c, n - i - 1)
        b == getitem(c, i)
        r1 == IF a.err # NoErr THEN a
              ELSE IF b.err # NoErr THEN b
              ELSE setitem(c, i, a.ret)
        r2 == Then(r1, LAMBDA c1 : setitem(c1, n - i - 1, b.ret))
    IN Then(r2, LAMBDA c2 : reverse_swap(c2, i + 1, n))

RECURSIVE reverse_names(_, _, _)
reverse_names(c, i, names) ==
  IF i >= Len(names) THEN Ok(c)
  ELSE Then(set_block_name(c, i, names[Len(names) - i]),
            LAMBDA c1 : reverse_names(c1, i + 1, names))

reverse(c) ==
  LET names == keys(c)
  IN Then(reverse_swap(c, 0, n_blocks(c)),
          LAMBDA c1 : reverse_names(c1, 0, names))

\* clean(empty): null_blocks collects the positions to drop, in ascending
\* order; each deletion lowers all the collected positions by one.  A nested
\* container is cleaned in place (always with empty=True) while the
\* positions are collected, and is dropped when it has no block left.
\* The dataset whose n_points is never below one.
n_points_full(d) == 1

n_points(d) == IF d \in EmptyData THEN 0 ELSE 1

\* The deletion loop without "null_blocks -= 1".
RECURSIVE clean_del_unshifted(_, _, _)
clean_del_unshifted(c, nb, k) ==
  IF k >= Len(nb) THEN Ok(c)
  ELSE Then(delitem(c, nb[k + 1]), LAMBDA c1 : clean_del_unshifted(c1, nb, k + 1))

RECURSIVE clean_del(_, _, _)
clean_del(c, nb, k) ==
  IF k >= Len(nb) THEN Ok(c)
  ELSE Then(delitem(c, nb[k + 1] - k), LAMBDA c1 : clean_del(c1, nb, k + 1))

RECURSIVE null_blocks(_, _, _)
RECURSIVE clean(_, _)

\* The nested container data of c, as a container of its own.
nested(c, data) ==
  [blocks |-> c.heap[data].blocks, refs |-> c.heap[data].refs, heap |-> c.heap]

\* The first loop of clean from position i on: the positions collected and
\* the heap the nested clean() calls leave.
null_blocks(c, i, empty) ==
  IF i >= n_blocks(c) THEN [nb |-> <<>>, heap |-> c.heap]
  ELSE
    LET data == c.blocks[i + 1].data
        sub == clean(nested(c, data), TRUE).c
        heap1 == IF data \in Nested
                 THEN [sub.heap EXCEPT ![data] = [blocks |-> sub.blocks, refs |-> sub.refs]]
                 ELSE c.heap
        hit == IF data \in Nested THEN n_blocks(sub) < 1
               ELSE data = None \/ (empty /\ n_points(data) < 1)
        rest == null_blocks([c EXCEPT !.heap = heap1], i + 1, empty)
    IN [nb |-> (IF hit THEN <<i>> ELSE <<>>) \o rest.nb, heap |-> rest.heap]

clean(c, empty) ==
  LET found == null_blocks(c, 0, empty)
  IN clean_del([c EXCEPT !.heap = found.heap], found.nb, 0)

\* ---------------------------------------------------------- spatial bounds
\* The bounds a leaf reports, (x_min, x_max, y_min, y_max, z_min, z_max):
\* d1 and d3 are unit boxes, d2 has no points and reports the bounds VTK
\* gives a dataset without geometry.
leaf_bounds(d) ==
  IF d = "d1" THEN <<0, 1, 0, 1, 0, 1>>
  ELSE IF d = "d3" THEN <<2, 3, 0, 1, 0, 1>>
  ELSE <<1, -1, 1, -1, 1, -1>>


SetMin(S) == CHOOSE x \in S : \A y \in S : x <= y
SetMax(S) == CHOOSE x \in S : \A y \in S : y <= x

\* The bounds property, lines 197-209.  "if block": None is false, a
\* MultiBlock is true when len() is not zero, and a leaf dataset, which
\* defines neither __bool__ nor __len__, is true.
RECURSIVE bounds(_)
bounds(c) ==
  LET truth(data) == IF data = None THEN FALSE
                     ELSE IF data \in Nested THEN Len(c.heap[data].blocks) > 0
                     ELSE TRUE
      all_bounds ==
        {IF c.blocks[k].data \in Nested THEN bounds(nested(c, c.blocks[k].data))
         ELSE leaf_bounds(c.blocks[k].data) :
           k \in {j \in 1..n_blocks(c) : truth(c.blocks[j].data)}}
      lo(a) == SetMin({b[a] : b \in all_bounds})
      hi(a) == SetMax({b[a] : b \in all_bounds})
  IN IF all_bounds = {} THEN <<0, 0, 0, 0, 0, 0>>
     ELSE <<lo(1), hi(2), lo(3), hi(4), lo(5), hi(6)>>
\* ----------------------------------------------------------- active scalars

\* An array, by the leaf that owns it, its number of dimensions and whether
\* its dtype is complex: c2 holds vectors, cz holds complex values.
leaf_array(d) ==
  [of |-> d, ndim |-> IF d = "c2" THEN 2 ELSE 1, complex |-> d = "cz"]

\* pyvista_ndarray([])
EmptyArray == [of |-> "none", ndim |-> 1, complex |-> FALSE]

\* The leaves that carry the array "T" with their points, and with their
\* cells; pc carries it with both, d1 and d2 with neither.
leaf_has(d, field) ==
  IF field = "point" THEN d \in {"p1", "pc"} ELSE d \in {"c1", "c2", "cz", "pc"}

other_field(field) == IF field = "point" THEN "cell" ELSE "point"

\* block.set_active_scalars(name, preference) of a leaf: the association
\* under which the leaf holds the array, the preferred one first, with the
\* array; KeyError when the leaf does not hold it; name None deactivates and
\* returns no array (of = "None").
leaf_set_active_scalars(d, name, preference) ==
  IF name = None
    THEN [err |-> NoErr, field |-> "none", scalars |-> [EmptyArray EXCEPT !.of = None]]
  ELSE IF leaf_has(d, preference)
    THEN [err |-> NoErr, field |-> preference, scalars |-> leaf_array(d)]
  ELSE IF leaf_has(d, other_field(preference))
    THEN [err |-> NoErr, field |-> other_field(preference), scalars |-> leaf_array(d)]
  ELSE [err |-> "KeyError", field |-> "none", scalars |-> EmptyArray]

RECURSIVE set_active_scalars(_, _, _, _)
RECURSIVE collect_assoc(_, _, _, _, _, _)

\* One block of the first loop, lines 1131-1148: the nested call, or the
\* call on the leaf with its KeyError caught when allow_missing is set.
block_assoc(c, data, name, preference, allow_missing) ==
  IF data \in Nested
    THEN set_active_scalars(nested(c, data), name, preference, allow_missing)
  ELSE LET r == leaf_set_active_scalars(data, name, preference)
       IN IF r.err = "KeyError"
            THEN IF ~allow_missing THEN r
                 ELSE [err |-> NoErr, field |-> "none", scalars |-> EmptyArray]
          ELSE IF r.scalars.of = None
            THEN [err |-> NoErr, field |-> "none", scalars |-> EmptyArray]
          ELSE r

\* The first loop from position k on, lines 1129-1151: data_assoc, or the
\* error of the block that stopped it.
collect_assoc(c, k, name, preference, allow_missing, data_assoc) ==
  IF k > n_blocks(c) THEN [err |-> NoErr, data_assoc |-> data_assoc]
  ELSE IF c.blocks[k].data = None
    THEN collect_assoc(c, k + 1, name, preference, allow_missing, data_assoc)
  ELSE LET r == block_assoc(c, c.blocks[k].data, name, preference, allow_missing)
       IN IF r.err # NoErr THEN [err |-> r.err, data_assoc |-> data_assoc]
          ELSE collect_assoc(c, k + 1, name, preference, allow_missing,
                             IF r.field # "none"
                               THEN Append(data_assoc, [field |-> r.field, scalars |-> r.scalars])
                               ELSE data_assoc)

resolve_field_first(data_assoc, preference) ==
  data_assoc[1].field

\* The association the call settles on, lines 1159-1167.
resolve_field(data_assoc, preference) ==
  IF /\ data_assoc[1].field # preference
     /\ \E k \in 1..Len(data_assoc) : data_assoc[k].field = preference
    THEN preference
    ELSE data_assoc[1].field

check_arrays_dims_only(data_assoc, field_asc) ==
  LET active == {k \in 1..Len(data_assoc) : data_assoc[k].field = field_asc}
      dims == {data_assoc[k].scalars.ndim : k \in active}
  IN IF Cardinality(dims) > 1 THEN "ValueError" ELSE NoErr

\* The checks of lines 1169-1186 on the entries of the settled association.
check_arrays(data_assoc, field_asc) ==
  LET active == {k \in 1..Len(data_assoc) : data_assoc[k].field = field_asc}
      dims == {data_assoc[k].scalars.ndim : k \in active}
      is_complex == {data_assoc[k].scalars.complex : k \in active}
  IN IF Cardinality(dims) > 1 THEN "ValueError"
     ELSE IF TRUE \in is_complex /\ FALSE \in is_complex THEN "ValueError"
     ELSE NoErr

set_active_scalars_none_when_missing(c, name, preference, allow_missing) ==
  LET r == collect_assoc(c, 1, name, preference, allow_missing, <<>>)
      data_assoc == r.data_assoc
      field_asc == resolve_field(data_assoc, preference)
      fail(e) == [err |-> e, field |-> "none", scalars |-> EmptyArray]
  IN IF r.err # NoErr THEN fail(r.err)
     ELSE IF name = None THEN fail(NoErr)
     ELSE IF data_assoc = <<>> THEN fail(IF allow_missing THEN NoErr ELSE "KeyError")
     ELSE IF check_arrays(data_assoc, field_asc) # NoErr
       THEN fail(check_arrays(data_assoc, field_asc))
     ELSE [err |-> NoErr, field |-> field_asc,
           scalars |-> data_assoc[Len(data_assoc)].scalars]

\* set_active_scalars(name, preference, allow_missing), lines 1128-1188. The
\* array returned is the one the last pass of the loop of line 1173 bound,
\* that of the last entry of data_assoc.
set_active_scalars(c, name, preference, allow_missing) ==
  LET r == collect_assoc(c, 1, name, preference, allow_missing, <<>>)
      data_assoc == r.data_assoc
      field_asc == resolve_field(data_assoc, preference)
      fail(e) == [err |-> e, field |-> "none", scalars |-> EmptyArray]
  IN IF r.err # NoErr THEN fail(r.err)
     ELSE IF name = None THEN fail(NoErr)
     ELSE IF data_assoc = <<>> THEN fail("KeyError")
     ELSE IF check_arrays(data_assoc, field_asc) # NoErr
       THEN fail(check_arrays(data_assoc, field_asc))
     ELSE [err |-> NoErr, field |-> field_asc,
           scalars |-> data_assoc[Len(data_assoc)].scalars]
\* --------------------------------------------------------------- data range
\* The leaves that hold the array "T" with the least and the greatest of its
\* values; d1 does not hold it.
RangeLeaves == {"r1", "r2"}

\* A (min, max) pair; found is FALSE for (inf, -inf), which no value moves.
NoRange == [found |-> FALSE, lo |-> 0, hi |-> 0]

\* data.get_data_range(name) of a leaf: KeyError when it lacks the array.
leaf_get_data_range(d, name) ==
  IF d \notin RangeLeaves THEN [err |-> "KeyError", range |-> NoRange]
  ELSE IF d = "r1" THEN [err |-> NoErr, range |-> [found |-> TRUE, lo |-> 0, hi |-> 1]]
  ELSE [err |-> NoErr, range |-> [found |-> TRUE, lo |-> 2, hi |-> 5]]

\* Lines 352-355: mini and maxi after a block reported t.
widen(acc, t) ==
  IF ~t.found THEN acc
  ELSE IF ~acc.found THEN t
  ELSE [found |-> TRUE,
        lo |-> IF t.lo < acc.lo THEN t.lo ELSE acc.lo,
        hi |-> IF t.hi > acc.hi THEN t.hi ELSE acc.hi]

RECURSIVE get_data_range_from(_, _, _, _, _)

\* get_data_range(name, allow_missing), lines 339-356, from block i on with
\* (mini, maxi) = acc.  The call on a block passes the name alone (line 346).
get_data_range_from(c, i, name, allow_missing, acc) ==
  IF i >= n_blocks(c) THEN [err |-> NoErr, range |-> acc]
  ELSE
    LET data == c.blocks[i + 1].data
        t == IF data \in Nested
               THEN get_data_range_from(nested(c, data), 0, name, FALSE, NoRange)
               ELSE leaf_get_data_range(data, name)
    IN IF data = None THEN get_data_range_from(c, i + 1, name, allow_missing, acc)
       ELSE IF t.err = "KeyError"
         THEN IF allow_missing
                THEN get_data_range_from(c, i + 1, name, allow_missing, acc)
                ELSE [err |-> "KeyError", range |-> NoRange]
       ELSE get_data_range_from(c, i + 1, name, allow_missing, widen(acc, t.range))

get_data_range(c, name, allow_missing) ==
  get_data_range_from(c, 0, name, allow_missing, NoRange)
\* ------------------------------------------------------------------ surface
\* The MultiBlock objects of a call that creates containers: the container
\* itself, the nested ones, and for each the copy the call makes of it (one
\* identity per original: the copies of one original have the same content).
Objects == {SelfRef} \cup Nested
copy_of(id) == id \o "p"
Copies == {copy_of(id) : id \in Objects}
NoObject == [blocks |-> <<>>, refs |-> {}]

\* All objects by identity, the copies not made yet.
workspace(c) ==
  [id \in Objects \cup Copies |->
     IF id = SelfRef THEN [blocks |-> c.blocks, refs |-> c.refs]
     ELSE IF id \in Nested THEN c.heap[id]
     ELSE NoObject]

\* The object id of workspace h as a container, and a container put back.
object(h, id) == [blocks |-> h[id].blocks, refs |-> h[id].refs, heap |-> h]
store(id, c) == [c.heap EXCEPT ![id] = [blocks |-> c.blocks, refs |-> c.refs]]

\* isinstance(block, MultiBlock)
is_multiblock(data) == data \in Objects \cup Copies

\* _replace_nested_multiblocks(this_object_, new_object) from position i on,
\* lines 1051-1058.  The instance VTK made of a nested block stands under the
\* identity of the block it was made from, which replaces it.
RECURSIVE replace_nested(_, _, _, _)
replace_nested(h, this, new, i) ==
  IF i >= Len(h[this].blocks) THEN h
  ELSE IF ~is_multiblock(h[this].blocks[i + 1].data)
    THEN replace_nested(h, this, new, i + 1)
  ELSE LET block_to_copy == h[new].blocks[i + 1].data
           h1 == store(this, replace(object(h, this), i, block_to_copy).c)
           h2 == replace_nested(h1, block_to_copy, block_to_copy, 0)
       IN replace_nested(h2, this, new, i + 1)

\* this.shallow_copy(to_copy), lines 1043-1061: the blocks and their names
\* are shared with to_copy, _refs is left as it is.
shallow_copy(h, this, to_copy) ==
  replace_nested([h EXCEPT ![this].blocks = h[to_copy].blocks], this, to_copy, 0)

\* copy(deep=False), lines 1018-1025: a new object, then shallow_copy.
copy(h, id) ==
  shallow_copy([h EXCEPT ![copy_of(id)] = NoObject], copy_of(id), id)

\* The leaves by type: pyvista.PointSet, a volume type, and PolyData.
PointSets == {"ps"}
Volumes == {"ug"}
is_polydata(d) == d # None /\ ~is_multiblock(d) /\ d \notin PointSets \cup Volumes

\* What the conversions of a leaf return, all of them PolyData.
cast_to_polydata(d) == d \o "_poly"
extract_surface(d) == d \o "_surface"
leaf_copy(d) == d \o "c"
\* pyvista.PolyData()
NewPolyData == "pd"

RECURSIVE as_polydata_blocks(_, _, _)

convert_block_keep_null(h, dataset, i, cp) ==
  LET block == h[dataset].blocks[i + 1].data
      put(hh, d) == store(dataset, replace(object(hh, dataset), i, d).c)
  IN IF block = None THEN h
     ELSE IF is_multiblock(block)
       THEN put(as_polydata_blocks(h, block, cp), copy_of(block))
     ELSE IF block \in PointSets THEN put(h, cast_to_polydata(block))
     ELSE IF ~is_polydata(block) THEN put(h, extract_surface(block))
     ELSE IF cp THEN put(h, leaf_copy(block))
     ELSE h

\* One pass of the loop of as_polydata_blocks, lines 1217-1230.
convert_block(h, dataset, i, cp) ==
  LET block == h[dataset].blocks[i + 1].data
      put(hh, d) == store(dataset, replace(object(hh, dataset), i, d).c)
  IN IF block = None
       THEN store(dataset, setitem(object(h, dataset), i, NewPolyData).c)
     ELSE IF is_multiblock(block)
       THEN put(as_polydata_blocks(h, block, cp), copy_of(block))
     ELSE IF block \in PointSets THEN put(h, cast_to_polydata(block))
     ELSE IF ~is_polydata(block) THEN put(h, extract_surface(block))
     ELSE IF cp THEN put(h, leaf_copy(block))
     ELSE h

RECURSIVE convert_loop(_, _, _, _)
convert_loop(h, dataset, i, cp) ==
  IF i >= Len(h[dataset].blocks) THEN h
  ELSE convert_loop(convert_block(h, dataset, i, cp), dataset, i + 1, cp)

\* id.as_polydata_blocks(copy=cp), lines 1212-1232: the workspace with the
\* container returned under copy_of(id).
as_polydata_blocks(h, id, cp) ==
  convert_loop(copy(h, id), copy_of(id), 0, cp)

\* is_all_polydata, lines 1247-1255.
RECURSIVE is_all_polydata(_, _)
is_all_polydata(h, id) ==
  \A k \in 1..Len(h[id].blocks) :
     LET block == h[id].blocks[k].data
     IN IF is_multiblock(block) THEN is_all_polydata(h, block)
        ELSE is_polydata(block)
\* ---------------------------------------------------------------- equality
\* The value of a payload, which is what "!=" between two payloads compares:
\* d1c is another dataset object with the geometry and arrays of d1.
mesh_value(d) == IF d = "d1c" THEN "d1" ELSE d

\* __eq__ that does not compare the keys.
eq_payloads_only(c, other) ==
  IF other.kind = "object" THEN FALSE
  ELSE IF other.kind = "self" THEN TRUE
  ELSE IF Len(c.blocks) # Len(other.blocks) THEN FALSE
  ELSE ~(\E k \in 1..Len(c.blocks) :
           mesh_value(c.blocks[k].data) # mesh_value(other.blocks[k].data))

\* __eq__(other).  other.kind tells what the right-hand side is: an object
\* that is no MultiBlock, the container itself, or another MultiBlock, whose
\* blocks are other.blocks.
eq(c, other) ==
  IF other.kind = "object" THEN FALSE
  ELSE IF other.kind = "self" THEN TRUE
  ELSE IF Len(c.blocks) # Len(other.blocks) THEN FALSE
  ELSE IF keys(c) # [k \in 1..Len(other.blocks) |-> other.blocks[k].name] THEN FALSE
  ELSE ~(\E k \in 1..Len(c.blocks) :
           mesh_value(c.blocks[k].data) # mesh_value(other.blocks[k].data))

\* Right-hand sides to compare a container with: itself, a non-container,
\* and containers that are a copy of it or differ from it in one payload,
\* one name, or the last block.
Others(c) ==
  LET n == Len(c.blocks)
      same == {c.blocks}
      payload == {[c.blocks EXCEPT ![k].data = d] :
                    k \in 1..n, d \in Payload \cup {"d1c"}}
      named == {[c.blocks EXCEPT ![k].name = nm] : k \in 1..n, nm \in NameArg}
      shorter == IF n > 0 THEN {SubSeq(c.blocks, 1, n - 1)} ELSE {}
      longer == {c.blocks \o <<[data |-> None, name |-> None]>>}
  IN {[kind |-> "self", blocks |-> c.blocks], [kind |-> "object", blocks |-> <<>>]}
       \cup {[kind |-> "MultiBlock", blocks |-> bs] :
               bs \in same \cup payload \cup named \cup shorter \cup longer}
\* ------------------------------------------------------------------ slices
\* slice.indices(n): <<start, stop, step>> clipped to a sequence of length n.
slice_indices(sl, n) ==
  LET step == IF sl.step = NoInt THEN 1 ELSE sl.step[1]
      lower == IF step > 0 THEN 0 ELSE -1
      upper == IF step > 0 THEN n ELSE n - 1
      clip(v) == IF v < 0 THEN (IF v + n < lower THEN lower ELSE v + n)
                 ELSE (IF v > upper THEN upper ELSE v)
      start == IF sl.start = NoInt THEN (IF step < 0 THEN upper ELSE lower)
               ELSE clip(sl.start[1])
      stop == IF sl.stop = NoInt THEN (IF step < 0 THEN lower ELSE upper)
              ELSE clip(sl.stop[1])
  IN <<start, stop, step>>

\* range(start, stop, step), as the sequence of its elements.
range3(t) ==
  LET start == t[1]
      stop == t[2]
      step == t[3]
      len == IF step > 0
             THEN (IF start < stop THEN ((stop - start - 1) \div step) + 1 ELSE 0)
             ELSE (IF stop < start THEN ((start - stop - 1) \div (-step)) + 1 ELSE 0)
  IN [k \in 1..len |-> start + (k - 1) * step]

\* range(n)[sl]: the positions a slice resolves to.
resolved(sl, n) == range3(slice_indices(sl, n))

Reversed(s) == [k \in 1..Len(s) |-> s[Len(s) + 1 - k]]

\* del c[sl], lines 739-746: the positions are visited from the highest down.
RECURSIVE delitem_each(_, _, _)
delitem_each(c, order, k) ==
  IF k > Len(order) THEN Ok(c)
  ELSE Then(delitem(c, order[k]), LAMBDA c1 : delitem_each(c1, order, k + 1))

\* The deletion order without reversed(): ascending for a positive step.
delitem_order_asc(sl, n) == range3(slice_indices(sl, n))

delitem_order(sl, n) ==
  IF slice_indices(sl, n)[3] > 0 THEN Reversed(range3(slice_indices(sl, n)))
  ELSE range3(slice_indices(sl, n))

delitem_slice(c, sl) == delitem_each(c, delitem_order(sl, n_blocks(c)), 1)

\* c[sl], lines 403-407: a new MultiBlock that receives, by append, each
\* resolved block with the name get_block_name reports for it.
RECURSIVE getitem_slice_loop(_, _, _, _)
getitem_slice_loop(c, multi, index_iter, k) ==
  IF k > Len(index_iter) THEN Ret(c, multi)
  ELSE
    LET g == getitem(c, index_iter[k])
        nm == get_block_name(c, index_iter[k])
        a == append(multi, g.ret, nm.ret)
    IN IF g.err # NoErr THEN g
       ELSE IF nm.err # NoErr THEN nm
       ELSE IF a.err # NoErr THEN Raise(c, a.err)
       ELSE getitem_slice_loop(c, a.c, index_iter, k + 1)

getitem_slice(c, sl) ==
  getitem_slice_loop(c, [blocks |-> <<>>, refs |-> {}], resolved(sl, n_blocks(c)), 1)
\* c[sl] = data, lines 701-713.  index_iter is fixed before the loop; step i
\* of enumerate(zip_longest(index_iter, data)) pairs position and payload,
\* None filling the shorter side.
RECURSIVE setitem_slice_loop(_, _, _, _)
setitem_slice_loop(c, index_iter, data, i) ==
  IF i >= Len(index_iter) /\ i >= Len(data) THEN Ok(c)
  ELSE
    LET d == IF i < Len(data) THEN data[i + 1] ELSE None
        r == IF i >= Len(index_iter)
             THEN IF Len(index_iter) = 0 THEN Raise(c, "IndexError")
                  ELSE insert(c, index_iter[Len(index_iter)] + 1 + (i - Len(index_iter)),
                              d, None)
             ELSE IF d = None THEN delitem(c, index_iter[Len(index_iter)] + 1)
             ELSE setitem(c, index_iter[i + 1], d)
    IN Then(r, LAMBDA c1 : setitem_slice_loop(c1, index_iter, data, i + 1))

setitem_slice(c, sl, data) ==
  setitem_slice_loop(c, resolved(sl, n_blocks(c)), data, 0)

\* ------------------------------------------------------------------ state
\* blocks, refs: the container (vtkMultiBlockDataSet children, self._refs).
\* heap: the MultiBlock objects that may be stored in it as blocks.
\* pre, last: the container before, and the arguments and outcome of, the
\* call under observation.  A run makes any number of calls and may observe
\* its final one; last.op = "none" while no call has been observed.
VARIABLES blocks, refs, heap, pre, last
vars == <<blocks, refs, heap, pre, last>>

self == [blocks |-> blocks, refs |-> refs, heap |-> heap]

\* out is the container a call returned (a slice read), ret any other value;
\* other and eq are the right-hand side and the result of a comparison;
\* box is a bounds tuple returned; pref is an association preferred, assoc
\* and arr the association and the array returned; res holds the containers
\* a call created, the one it returned under the identity "selfp"; range is
\* a (min, max) pair returned.
NoCall == [op |-> "none", idx |-> 0, data |-> None, name |-> None, sl |-> [start |-> NoInt, stop |-> NoInt, step |-> NoInt],
           seq |-> <<>>, flag |-> FALSE, err |-> NoErr, ret |-> None,
           out |-> [blocks |-> <<>>, refs |-> {}],
           other |-> [kind |-> "object", blocks |-> <<>>], eq |-> FALSE,
           box |-> <<0, 0, 0, 0, 0, 0>>,
           pref |-> "cell", assoc |-> "none", arr |-> EmptyArray,
           res |-> [id \in Copies |-> NoObject],
           range |-> NoRange]

\* Argument domains.
Idx == (-(MaxLen + 1))..MaxLen
LookupNames == ExplicitNames \cup {DefaultName(0)}
Slices == [start : {NoInt, <<1>>, <<-1>>}, stop : {NoInt, <<2>>, <<-1>>},
           step : {NoInt, <<2>>, <<-1>>}]
SetSlices == [start : {NoInt, <<1>>}, stop : {NoInt, <<1>>, <<2>>},
              step : {NoInt, <<2>>}]
DataSeqs == UNION {[1..k -> Data] : k \in 0..MaxData}
\* Payloads and payload sequences that may name the container itself.
PayloadOrSelf == Payload \cup {SelfRef}
SelfSeqs == UNION {[1..k -> Data \cup {SelfRef}] : k \in 0..MaxData}

\* __init__ with no argument: no blocks, an empty _refs.
Init ==
  /\ blocks = <<>>
  /\ refs = {}
  /\ heap = NoHeap
  /\ pre = [blocks |-> <<>>, refs |-> {}, heap |-> NoHeap]
  /\ last = NoCall

\* How a call is run: whether it is the observed call (watch holds the
\* choices), and how long the container may get in this run.
Quiet(max) == [watch |-> {FALSE}, max |-> max]
Watched(max) == [watch |-> {TRUE}, max |-> max]
Either(max) == [watch |-> BOOLEAN, max |-> max]

\* The call whose result is r is made.
Step(r, call, m) ==
  /\ last.op = "none"
  /\ Len(r.c.blocks) <= m.max
  /\ blocks' = r.c.blocks
  /\ refs' = r.c.refs
  /\ heap' = r.c.heap
  /\ \E watch \in m.watch :
       IF watch
       THEN /\ pre' = self
            /\ last' = [call EXCEPT !.err = r.err, !.ret = r.ret]
       ELSE UNCHANGED <<pre, last>>

\* The call whose result is r is made and observed; before is the container
\* it met.
Observe(r, before, call, m) ==
  /\ last.op = "none"
  /\ Len(r.c.blocks) <= m.max
  /\ blocks' = r.c.blocks
  /\ refs' = r.c.refs
  /\ heap' = r.c.heap
  /\ pre' = before
  /\ last' = [call EXCEPT !.err = r.err, !.ret = r.ret]
CallSetNBlocks(n, m) ==
  LET r == Ok(set_n_blocks(self, n))
  IN Step(r, [NoCall EXCEPT !.op = "n_blocks", !.idx = n], m)

CallAppend(d, nm, m) ==
  LET r == append(self, d, nm)
  IN Step(r, [NoCall EXCEPT !.op = "append", !.data = d, !.name = nm], m)

CallInsert(i, d, nm, m) ==
  LET r == insert(self, i, d, nm)
  IN Step(r, [NoCall EXCEPT !.op = "insert", !.idx = i, !.data = d, !.name = nm], m)

CallSetItem(i, d, m) ==
  LET r == setitem(self, i, d)
  IN Step(r, [NoCall EXCEPT !.op = "setitem", !.idx = i, !.data = d], m)

CallSetItemStr(nm, d, m) ==
  LET r == setitem_str(self, nm, d)
  IN Step(r, [NoCall EXCEPT !.op = "setitem_str", !.name = nm, !.data = d], m)

CallSetItemSlice(sl, seq, m) ==
  LET r == setitem_slice(self, sl, seq)
  IN Step(r, [NoCall EXCEPT !.op = "setitem_slice", !.sl = sl, !.seq = seq], m)

CallReplace(i, d, m) ==
  LET r == replace(self, i, d)
  IN Step(r, [NoCall EXCEPT !.op = "replace", !.idx = i, !.data = d], m)

\* Whether the VTK wrapper raises on a negative block number or reports the
\* error and returns depends on the VTK build; the container is the same.
CallDelItem(i, m) ==
  LET r == delitem(self, i)
  IN \E e \in (IF r.err = "OverflowError" THEN {"OverflowError", NoErr} ELSE {r.err}) :
       Step([r EXCEPT !.err = e], [NoCall EXCEPT !.op = "delitem", !.idx = i], m)

CallDelItemStr(nm, m) ==
  LET r == delitem_str(self, nm)
  IN Step(r, [NoCall EXCEPT !.op = "delitem_str", !.name = nm], m)

CallDelItemSlice(sl, m) ==
  LET r == delitem_slice(self, sl)
  IN Step(r, [NoCall EXCEPT !.op = "delitem_slice", !.sl = sl], m)

CallPop(i, m) ==
  LET r == pop(self, i)
  IN Step(r, [NoCall EXCEPT !.op = "pop", !.idx = i], m)

CallPopStr(nm, m) ==
  LET r == pop_str(self, nm)
  IN Step(r, [NoCall EXCEPT !.op = "pop_str", !.name = nm], m)

CallReverse(m) ==
  LET r == reverse(self)
  IN Step(r, [NoCall EXCEPT !.op = "reverse"], m)

CallClean(empty, m) ==
  LET r == clean(self, empty)
  IN Step(r, [NoCall EXCEPT !.op = "clean", !.flag = empty], m)

\* c.insert(0, x, "n") followed by c.pop(0): the round trip of the list
\* protocol.  ret is what pop returned.
insert_pop(c, x) ==
  Then(insert(c, 0, x, "n"), LAMBDA c1 : pop(c1, 0))

CallInsertPop(x, m) ==
  LET r == insert_pop(self, x)
  IN Step(r, [NoCall EXCEPT !.op = "insert_pop", !.data = x, !.name = "n"], m)

\* c.reverse() followed by c.reverse().
reverse_reverse(c) == Then(reverse(c), LAMBDA c1 : reverse(c1))

CallReverseTwice(m) ==
  LET r == reverse_reverse(self)
  IN Step(r, [NoCall EXCEPT !.op = "reverse_reverse"], m)
\* c[i], read.
CallGetItem(i, m) ==
  LET r == getitem(self, i)
  IN Step(r, [NoCall EXCEPT !.op = "getitem", !.idx = i], m)

\* c = MultiBlock(seq) followed by c[i], on a container nothing else was
\* called on; the container under observation is the one __init__ built.
CallListGetItem(seq, i, m) ==
  LET built == init_list(self, seq)
      r == Then(built, LAMBDA c1 : getitem(c1, i))
  IN /\ blocks = <<>>
     /\ refs = {}
     /\ Observe(r, built.c, [NoCall EXCEPT !.op = "list_getitem", !.seq = seq, !.idx = i], m)
\* c[name], read.
CallGetItemStr(nm, m) ==
  LET r == getitem_str(self, nm)
  IN Step(r, [NoCall EXCEPT !.op = "getitem_str", !.name = nm], m)

\* c.get(name, default)
CallGet(nm, default, m) ==
  LET r == get(self, nm, default)
  IN Step(r, [NoCall EXCEPT !.op = "get", !.name = nm, !.data = default], m)
\* c[sl], read: the value returned is a container.
CallGetItemSlice(sl, m) ==
  LET r == getitem_slice(self, sl)
      multi == IF r.err = NoErr THEN r.ret ELSE NoCall.out
  IN Step([r EXCEPT !.ret = None],
          [NoCall EXCEPT !.op = "getitem_slice", !.sl = sl, !.out = multi], m)
\* c.extend(seq)
CallExtend(seq, m) ==
  LET r == extend(self, seq)
  IN Step(r, [NoCall EXCEPT !.op = "extend", !.seq = seq], m)
\* c == other
CallEq(other, m) ==
  Step(Ok(self), [NoCall EXCEPT !.op = "eq", !.other = other, !.eq = eq(self, other)], m)
\* c.clean() followed by c.clean(): the container under observation is the
\* one the first call left; idx is the length the first call met.
CallCleanTwice(m) ==
  LET first == clean(self, TRUE)
      r == Then(first, LAMBDA c1 : clean(c1, TRUE))
  IN Observe(r, first.c, [NoCall EXCEPT !.op = "clean_clean", !.flag = TRUE,
                                        !.idx = n_blocks(self)], m)

\* What a nested container may receive: a leaf or nothing, and m2 for m1.
NestedPayload(mb) ==
  IF mb = "m1" THEN {None, "d2", "m2"} ELSE {None, "d1"}

\* mb.append(d) on the MultiBlock object mb, which may already be a block of
\* the container or of m1.
CallNestedAppend(mb, d) ==
  LET r == append(heap[mb], d, None)
  IN /\ last.op = "none"
     /\ r.err = NoErr
     /\ Len(r.c.blocks) <= MaxNest
     /\ heap' = [heap EXCEPT ![mb] = r.c]
     /\ UNCHANGED <<blocks, refs, pre, last>>
\* c.bounds
CallBounds(m) ==
  Step(Ok(self), [NoCall EXCEPT !.op = "bounds", !.box = bounds(self)], m)
\* c.set_active_scalars(name, preference, allow_missing); the array each leaf
\* has active is state of the leaf, not of the container.
CallSetActiveScalars(name, preference, allow_missing, m) ==
  LET r == set_active_scalars(self, name, preference, allow_missing)
  IN Step([c |-> self, err |-> r.err, ret |-> None],
          [NoCall EXCEPT !.op = "set_active_scalars", !.name = name,
                         !.pref = preference, !.flag = allow_missing,
                         !.assoc = r.field, !.arr = r.scalars], m)
\* c.as_polydata_blocks(copy=cp), and is_all_polydata of what it returned.
CallAsPolydataBlocks(cp, m) ==
  \E h \in {as_polydata_blocks(workspace(self), SelfRef, cp)} :
    LET c1 == [blocks |-> h[SelfRef].blocks, refs |-> h[SelfRef].refs,
               heap |-> [id \in Nested |-> h[id]]]
    IN Step(Ok(c1), [NoCall EXCEPT !.op = "as_polydata_blocks", !.flag = cp,
                                   !.res = [id \in Copies |-> h[id]],
                                   !.eq = is_all_polydata(h, copy_of(SelfRef))], m)

\* c.extend(d), d a MultiBlock
CallExtendMultiBlock(other, m) ==
  LET r == extend_multiblock(self, other)
  IN Step(r, [NoCall EXCEPT !.op = "extend_multiblock", !.other = other], m)
\* ------------------------------------------------------------------ runs
\* Any sequence of mutators of the list protocol and of the name protocol,
\* from the empty container; the observed call, if any, is a deletion.
NextOps ==
  \/ \E d \in Payload, nm \in NameArg : CallAppend(d, nm, Quiet(MaxAll))
  \/ \E i \in Idx, d \in Payload, nm \in NameArg : CallInsert(i, d, nm, Quiet(MaxAll))
  \/ \E i \in Idx, d \in Payload : CallSetItem(i, d, Quiet(MaxAll))
  \/ \E nm \in LookupNames, d \in Payload : CallSetItemStr(nm, d, Quiet(MaxAll))
  \/ \E sl \in SetSlices, seq \in DataSeqs : CallSetItemSlice(sl, seq, Quiet(MaxAll))
  \/ \E i \in Idx, d \in Payload : CallReplace(i, d, Quiet(MaxAll))
  \/ \E i \in Idx : CallDelItem(i, Either(MaxAll))
  \/ \E nm \in LookupNames : CallDelItemStr(nm, Quiet(MaxAll))
  \/ \E sl \in Slices : CallDelItemSlice(sl, Quiet(MaxAll))
  \/ \E i \in Idx : CallPop(i, Quiet(MaxAll))
  \/ \E nm \in LookupNames : CallPopStr(nm, Quiet(MaxAll))
  \/ CallReverse(Quiet(MaxAll))
  \/ \E empty \in BOOLEAN : CallClean(empty, Quiet(MaxAll))

SpecOps == Init /\ [][NextOps]_vars

\* The calls that bring a container into the state an observed call meets:
\* blocks appended with and without a name, and blocks created (null and
\* unnamed) or cut off by the n_blocks setter.
Build ==
  \/ \E d \in Payload, nm \in NameArg : CallAppend(d, nm, Quiet(MaxLen))
  \/ \E n \in 0..MaxLen : CallSetNBlocks(n, Quiet(MaxLen))

\* Single-block assignment and replace, observed.
NextSet ==
  \/ Build
  \/ \E i \in Idx, d \in Payload : CallSetItem(i, d, Watched(MaxLen))
  \/ \E i \in Idx, d \in Payload : CallReplace(i, d, Watched(MaxLen))

SpecSet == Init /\ [][NextSet]_vars

\* insert, and insert followed by pop, observed.
NextIns ==
  \/ Build
  \/ \E i \in Idx, d \in Payload, nm \in NameArg : CallInsert(i, d, nm, Watched(MaxLen))
  \/ \E d \in Payload : CallInsertPop(d, Watched(MaxLen))

SpecIns == Init /\ [][NextIns]_vars

\* Slice assignment, observed.
NextSlice ==
  \/ Build
  \/ \E sl \in SetSlices, seq \in DataSeqs : CallSetItemSlice(sl, seq, Watched(MaxLen))

SpecSlice == Init /\ [][NextSlice]_vars

\* Deletion by index, by name and by slice, observed.
NextDel ==
  \/ Build
  \/ \E i \in Idx : CallDelItem(i, Watched(MaxLen))
  \/ \E nm \in LookupNames : CallDelItemStr(nm, Watched(MaxLen))
  \/ \E sl \in Slices : CallDelItemSlice(sl, Watched(MaxLen))

SpecDel == Init /\ [][NextDel]_vars

\* reverse, once and twice, observed.
NextRev ==
  \/ Build
  \/ CallReverse(Watched(MaxLen))
  \/ CallReverseTwice(Watched(MaxLen))

SpecRev == Init /\ [][NextRev]_vars
\* Reads by integer index and by slice, observed: of a container built call
\* by call, and of a container constructed from a list.
NextRead ==
  \/ Build
  \/ \E i \in Idx : CallGetItem(i, Watched(MaxLen))
  \/ \E seq \in UNION {[1..k -> Payload] : k \in 0..MaxLen}, i \in Idx :
       CallListGetItem(seq, i, Watched(MaxLen))
  \/ \E sl \in Slices : CallGetItemSlice(sl, Watched(MaxLen))

SpecRead == Init /\ [][NextRead]_vars
\* Lookups by name, observed after any sequence of mutators.
NextLookup ==
  \/ NextOps
  \/ \E nm \in LookupNames : CallGetItemStr(nm, Watched(MaxAll))
  \/ \E nm \in LookupNames, default \in Payload : CallGet(nm, default, Watched(MaxAll))

SpecLookup == Init /\ [][NextLookup]_vars
\* append, observed; the payload may be the container itself.
NextApp ==
  \/ Build
  \/ \E d \in Payload \cup {SelfRef}, nm \in NameArg : CallAppend(d, nm, Watched(MaxLen))

SpecApp == Init /\ [][NextApp]_vars
\* The calls that store a payload, with the container itself among the
\* payloads a caller may hand over.
NextSelf ==
  \/ \E d \in PayloadOrSelf, nm \in NameArg : CallAppend(d, nm, Quiet(MaxAll))
  \/ \E i \in Idx, d \in PayloadOrSelf, nm \in NameArg : CallInsert(i, d, nm, Quiet(MaxAll))
  \/ \E i \in Idx, d \in PayloadOrSelf : CallSetItem(i, d, Quiet(MaxAll))
  \/ \E nm \in LookupNames, d \in PayloadOrSelf : CallSetItemStr(nm, d, Quiet(MaxAll))
  \/ \E sl \in SetSlices, seq \in SelfSeqs : CallSetItemSlice(sl, seq, Quiet(MaxAll))
  \/ \E i \in Idx, d \in PayloadOrSelf : CallReplace(i, d, Quiet(MaxAll))
  \/ \E seq \in SelfSeqs : CallExtend(seq, Quiet(MaxAll))

SpecSelf == Init /\ [][NextSelf]_vars
\* Comparisons, observed.
NextEq ==
  \/ Build
  \/ \E other \in Others(self) : CallEq(other, Watched(MaxLen))

SpecEq == Init /\ [][NextEq]_vars
\* clean, once and twice, observed on containers that hold leaves, nulls and
\* nested containers.
NextClean ==
  \/ \E d \in Payload \cup Nested : CallAppend(d, None, Quiet(MaxLen))
  \/ \E mb \in Nested : \E d \in NestedPayload(mb) : CallNestedAppend(mb, d)
  \/ \E empty \in BOOLEAN : CallClean(empty, Watched(MaxLen))
  \/ CallCleanTwice(Watched(MaxLen))

SpecClean == Init /\ [][NextClean]_vars
\* bounds, observed on containers that hold boxes, empty meshes, nulls and
\* nested containers.
NextBounds ==
  \/ \E d \in {None, "d1", "d2", "d3"} \cup Nested : CallAppend(d, None, Quiet(MaxLen))
  \/ \E mb \in Nested : \E d \in NestedPayload(mb) : CallNestedAppend(mb, d)
  \/ CallBounds(Watched(MaxLen))

SpecBounds == Init /\ [][NextBounds]_vars

\* set_active_scalars, observed on containers of leaves that hold the array
\* with their points, with their cells, with both or not at all.
NextScalars ==
  \/ \E d \in {None, "d1", "p1", "c1", "c2", "cz", "pc"} \cup Nested :
       CallAppend(d, None, Quiet(MaxAll))
  \/ \E mb \in Nested : \E d \in (IF mb = "m1" THEN {"d1", "c1", "m2"} ELSE {"d1", "c1"}) :
       CallNestedAppend(mb, d)
  \/ \E name \in {None, "T"} : \E preference \in {"point", "cell"} : \E allow_missing \in BOOLEAN :
       CallSetActiveScalars(name, preference, allow_missing, Watched(MaxAll))

SpecScalars == Init /\ [][NextScalars]_vars

\* as_polydata_blocks and is_all_polydata of its result, on containers of surface,
\* point-set and volume leaves, nulls and nested containers.
NextSurface ==
  \/ \E d \in {None, "d1"} \cup PointSets \cup Volumes : CallAppend(d, None, Quiet(MaxAll))
  \/ \E d \in Nested, nm \in NameArg : CallAppend(d, nm, Quiet(MaxAll))
  \/ \E nm \in ExplicitNames : CallAppend(None, nm, Quiet(MaxAll))
  \/ \E mb \in Nested : \E d \in (IF mb = "m1" THEN {None, "ug", "m2"} ELSE {"ps"}) :
       CallNestedAppend(mb, d)
  \/ \E cp \in BOOLEAN : CallAsPolydataBlocks(cp, Watched(MaxAll))

SpecSurface == Init /\ [][NextSurface]_vars
\* Assignment by name, observed.
NextName ==
  \/ Build
  \/ \E nm \in LookupNames, d \in Payload : CallSetItemStr(nm, d, Watched(MaxLen))

SpecName == Init /\ [][NextName]_vars
\* Assignment to an index and to a slice, observed with the calls that fail.
NextAssign ==
  \/ Build
  \/ \E i \in Idx, d \in Payload : CallSetItem(i, d, Watched(MaxLen))
  \/ \E sl \in SetSlices, seq \in DataSeqs : CallSetItemSlice(sl, seq, Watched(MaxLen))

SpecAssign == Init /\ [][NextAssign]_vars
\* extend with a MultiBlock, observed: the container itself, and others of
\* up to MaxData blocks, named or not.
NextExtend ==
  \/ Build
  \/ CallExtendMultiBlock([kind |-> "self", blocks |-> <<>>], Watched(MaxLen))
  \/ \E bs \in UNION {[1..k -> [data : {None, "d1"}, name : NameArg]] : k \in 0..MaxData} :
       CallExtendMultiBlock([kind |-> "MultiBlock", blocks |-> bs], Watched(MaxLen))

SpecExtend == Init /\ [][NextExtend]_vars
\* c.get_data_range("T", allow_missing)
CallGetDataRange(allow_missing, m) ==
  \E r \in {get_data_range(self, "T", allow_missing)} :
    Step([c |-> self, err |-> r.err, ret |-> None],
         [NoCall EXCEPT !.op = "get_data_range", !.name = "T",
                        !.flag = allow_missing, !.range = r.range], m)

\* mb.append(d) on the MultiBlock object mb, up to max blocks.
CallNestedAppendUpTo(mb, d, max) ==
  LET r == append(heap[mb], d, None)
  IN /\ last.op = "none"
     /\ r.err = NoErr
     /\ Len(r.c.blocks) <= max
     /\ heap' = [heap EXCEPT ![mb] = r.c]
     /\ UNCHANGED <<blocks, refs, pre, last>>


\* get_data_range, observed on containers of leaves with and without the
\* array, nulls and nested containers of several blocks.
NextRange ==
  \/ \E d \in {None, "d1"} \cup RangeLeaves \cup Nested : CallAppend(d, None, Quiet(MaxAll))
  \/ \E mb \in Nested : \E d \in (IF mb = "m1" THEN {"d1", "r1", "m2"} ELSE {"d1", "r2"}) :
       CallNestedAppendUpTo(mb, d, MaxAll)
  \/ \E allow_missing \in BOOLEAN : CallGetDataRange(allow_missing, Watched(MaxAll))

SpecRange == Init /\ [][NextRange]_vars
\* ------------------------------------------------------------------ claims
\* What the observed call met and left.
PreLen == Len(pre.blocks)
Called(op) == last.op = op
Returned(op) == last.op = op /\ last.err = NoErr
Stored(bs) == {bs[k].data : k \in 1..Len(bs)} \ {None}

\* s without the element at position p (0-based).
RemoveAt(s, p) == SubSeq(s, 1, p) \o SubSeq(s, p + 2, Len(s))

\* s without the elements at the positions in S, from position k - 1 on.
RECURSIVE Without(_, _, _)
Without(s, S, k) ==
  IF k > Len(s) THEN <<>>
  ELSE (IF (k - 1) \in S THEN <<>> ELSE <<s[k]>>) \o Without(s, S, k + 1)

\* The elements of a set of positions, from the highest to the lowest.
RECURSIVE Descending(_)
Descending(S) ==
  IF S = {} THEN <<>>
  ELSE LET top == CHOOSE x \in S : \A y \in S : y <= x
       IN <<top>> \o Descending(S \ {top})

\* s after removing the positions of order one at a time, in that order.
RECURSIVE RemoveEach(_, _)
RemoveEach(s, order) ==
  IF order = <<>> THEN s
  ELSE RemoveEach(RemoveAt(s, order[1]), Tail(order))

SeqRange(s) == {s[k] : k \in 1..Len(s)}

\* C1: every non-null payload stored in a block has an entry in _refs,
\* whatever sequence of mutators produced the container.
RefsCoverStored == Stored(blocks) \subseteq refs

\* C2: every key of _refs is the identity of a payload that some block
\* currently stores.
NoDanglingRefs == refs \subseteq Stored(blocks)

\* C2 witness: a deletion dropped one entry of _refs and left another.
DeletionDroppedRef ==
  /\ Returned("delitem")
  /\ refs # {}
  /\ refs # pre.refs
  /\ Len(blocks) = PreLen - 1

\* C3, as stated: c[i] = payload keeps the name the block at i already has,
\* gives the default name only to an unnamed block, stores the payload and
\* changes no other block.
SetItemKeepsName ==
  Returned("setitem") =>
    LET p == Norm(PreLen, last.idx)
        was == pre.blocks[p + 1].name
    IN /\ Len(blocks) = PreLen
       /\ blocks[p + 1].data = last.data
       /\ blocks[p + 1].name = (IF was = None THEN DefaultName(p) ELSE was)
       /\ \A k \in 1..PreLen : k # p + 1 => blocks[k] = pre.blocks[k]

\* C3, amended: c[i] = payload gives the block at i the default name
\* 'Block-%02d' of its position whether or not it had a name, stores the
\* payload and changes no other block.
SetItemAssignsDefaultName ==
  Returned("setitem") =>
    LET p == Norm(PreLen, last.idx)
    IN /\ Len(blocks) = PreLen
       /\ blocks[p + 1] = [data |-> last.data, name |-> DefaultName(p)]
       /\ \A k \in 1..PreLen : k # p + 1 => blocks[k] = pre.blocks[k]

\* C3 witness: an assignment through a negative index to a block named "n",
\* next to another named block.
SetItemOnNamedBlock ==
  /\ Returned("setitem")
  /\ last.idx < 0
  /\ PreLen >= 2
  /\ pre.blocks[Norm(PreLen, last.idx) + 1].name = "n"
  /\ \E k \in 1..PreLen : k # Norm(PreLen, last.idx) + 1 /\ pre.blocks[k].name = "n"

\* C4: replace(index, payload) leaves the name at index as it was, stores the
\* payload there and changes neither another block nor the length.
ReplaceKeepsName ==
  Returned("replace") =>
    LET p == Norm(PreLen, last.idx)
    IN /\ Len(blocks) = PreLen
       /\ blocks[p + 1] = [data |-> last.data, name |-> pre.blocks[p + 1].name]
       /\ \A k \in 1..PreLen : k # p + 1 => blocks[k] = pre.blocks[k]

\* C5: insert(index, payload, name) at position k grows the container by
\* one, moves every (payload, name) pair at a position >= k one to the right,
\* leaves the pairs before k alone and puts the payload at k under the given
\* name, or under the default name of k.
InsertShiftsPairs ==
  Returned("insert") =>
    LET k == Norm(PreLen, last.idx)
    IN /\ Len(blocks) = PreLen + 1
       /\ \A j \in 0..(k - 1) : blocks[j + 1] = pre.blocks[j + 1]
       /\ \A j \in k..(PreLen - 1) : blocks[j + 2] = pre.blocks[j + 1]
       /\ blocks[k + 1] =
            [data |-> last.data,
             name |-> IF last.name = None THEN DefaultName(k) ELSE last.name]

\* The positions a unit-step slice assignment resolves to.
Target == resolved(last.sl, PreLen)
UnitStep == last.sl.step = NoInt
Payloads(bs) == [k \in 1..Len(bs) |-> bs[k].data]

\* C6: a slice assignment with more payloads than resolved positions
\* succeeds and leaves the payloads before the slice, then the whole
\* sequence, then the payloads after the slice; the slice may reach the end.
SliceAssignGrows ==
  (Called("setitem_slice") /\ UnitStep /\ Target # <<>> /\ Len(last.seq) > Len(Target)) =>
    /\ last.err = NoErr
    /\ Payloads(blocks) =
         SubSeq(Payloads(pre.blocks), 1, Target[1])
           \o last.seq
           \o SubSeq(Payloads(pre.blocks), Target[Len(Target)] + 2, PreLen)

\* C7: a slice assignment with fewer payloads than resolved positions
\* succeeds, deletes the resolved positions that receive no payload and
\* leaves every block outside the slice with its payload and name.
SliceAssignShrinks ==
  (Called("setitem_slice") /\ UnitStep /\ Len(last.seq) < Len(Target)) =>
    LET first == Target[1]
        gone == Len(Target) - Len(last.seq)
    IN /\ last.err = NoErr
       /\ Len(blocks) = PreLen - gone
       /\ \A j \in 1..first : blocks[j] = pre.blocks[j]
       /\ \A k \in 1..Len(last.seq) : blocks[first + k].data = last.seq[k]
       /\ \A j \in (Target[Len(Target)] + 2)..PreLen : blocks[j - gone] = pre.blocks[j]

\* C8: del c[slice] removes exactly the resolved positions, which is the
\* container that deleting them one at a time from the highest to the lowest
\* leaves; the step may have either sign.
DelSliceRemovesResolved ==
  Called("delitem_slice") =>
    LET S == SeqRange(resolved(last.sl, PreLen))
    IN /\ last.err = NoErr
       /\ blocks = Without(pre.blocks, S, 1)
       /\ blocks = RemoveEach(pre.blocks, Descending(S))

\* C8 witness: del c[::2] of three blocks removed the first and the last.
DelSliceTookTwo ==
  /\ Returned("delitem_slice")
  /\ last.sl = [start |-> NoInt, stop |-> NoInt, step |-> <<2>>]
  /\ PreLen = 3
  /\ Len(blocks) = 1
  /\ blocks[1] = pre.blocks[2]

\* C9: del c[index] with -n <= index < n, or with a name some block has,
\* removes the block at the resolved position: the later pairs move one to
\* the left and the earlier pairs stay.
DelItemRemovesSlot ==
  /\ (Called("delitem") /\ InRange(PreLen, last.idx)) =>
       /\ last.err = NoErr
       /\ blocks = RemoveAt(pre.blocks, Norm(PreLen, last.idx))
  /\ (Called("delitem_str") /\ last.name \in SeqRange(keys(pre))) =>
       /\ last.err = NoErr
       /\ blocks = RemoveAt(pre.blocks, get_index_by_name(pre, last.name).ret)

\* C10: on a container with no block named "n", the empty one included,
\* insert(0, x, "n") followed by pop(0) returns x and leaves no key "n".
InsertPopRoundTrip ==
  (Called("insert_pop") /\ "n" \notin SeqRange(keys(pre))) =>
    /\ last.err = NoErr
    /\ last.ret = last.data
    /\ "n" \notin SeqRange(keys(self))

\* C11: reverse() leaves at position i the (payload, name) pair that was at
\* n-1-i and keeps the length; reverse() twice restores the original pairs.
ReverseMirrorsPairs ==
  /\ Called("reverse") =>
       /\ last.err = NoErr
       /\ Len(blocks) = PreLen
       /\ \A i \in 0..(PreLen - 1) : blocks[i + 1] = pre.blocks[PreLen - i]
  /\ Called("reverse_reverse") =>
       /\ last.err = NoErr
       /\ blocks = pre.blocks
\* C12: on a container made of n payloads in order, c[i] returns the i-th
\* payload for 0 <= i < n, the payload at n+i for -n <= i < 0, and raises
\* IndexError outside; a read changes nothing in the container.
IndexReadsAppended ==
  /\ Called("list_getitem") =>
       LET n == Len(last.seq)
           i == last.idx
       IN /\ self = pre
          /\ (0 <= i /\ i < n) => (last.err = NoErr /\ last.ret = last.seq[i + 1])
          /\ (-n <= i /\ i < 0) => (last.err = NoErr /\ last.ret = last.seq[n + i + 1])
          /\ (i < -n \/ i >= n) => last.err = "IndexError"
  /\ Called("getitem") =>
       LET i == last.idx
       IN /\ self = pre
          /\ (0 <= i /\ i < PreLen) =>
               (last.err = NoErr /\ last.ret = pre.blocks[i + 1].data)
          /\ (-PreLen <= i /\ i < 0) =>
               (last.err = NoErr /\ last.ret = pre.blocks[PreLen + i + 1].data)
          /\ (i < -PreLen \/ i >= PreLen) => last.err = "IndexError"

\* C12 witness: c[-1] of a container made from three payloads returned the
\* third, which is not the first.
IndexReadFromEnd ==
  /\ Returned("list_getitem")
  /\ Len(last.seq) = 3
  /\ last.idx = -1
  /\ last.ret = last.seq[3]
  /\ last.seq[3] # last.seq[1]
\* The lowest position (1-based) whose block currently has the name, 0 if
\* no block has it.
FirstNamed(bs, name) ==
  IF \E k \in 1..Len(bs) : bs[k].name = name
  THEN CHOOSE k \in 1..Len(bs) :
         bs[k].name = name /\ \A j \in 1..(k - 1) : bs[j].name # name
  ELSE 0

\* C13: after any sequence of mutations c[name] returns the payload of the
\* lowest block that currently has the name and raises KeyError when no block
\* has it; get(name, default) returns the default in that case.
NameLookupFindsFirst ==
  /\ Called("getitem_str") =>
       LET k == FirstNamed(blocks, last.name)
       IN /\ self = pre
          /\ IF k = 0 THEN last.err = "KeyError"
             ELSE last.err = NoErr /\ last.ret = blocks[k].data
  /\ Called("get") =>
       LET k == FirstNamed(blocks, last.name)
       IN /\ self = pre
          /\ last.err = NoErr
          /\ last.ret = (IF k = 0 THEN last.data ELSE blocks[k].data)

\* C13 witness: two blocks share the name looked up and hold different
\* payloads; the lookup returned the first.
LookupAmongDuplicates ==
  /\ Returned("getitem_str")
  /\ Len(blocks) = 2
  /\ blocks[1].name = last.name
  /\ blocks[2].name = last.name
  /\ blocks[1].data # blocks[2].data
  /\ last.ret = blocks[1].data
\* C14: c[a:b:s] returns a new container holding, in order, the (payload,
\* name) pairs at the resolved positions, each under its original name; the
\* container read is unchanged.
SliceReadCopiesPairs ==
  Called("getitem_slice") =>
    LET index_iter == resolved(last.sl, PreLen)
    IN /\ last.err = NoErr
       /\ self = pre
       /\ last.out.blocks = [k \in 1..Len(index_iter) |-> pre.blocks[index_iter[k] + 1]]
\* C15: append(payload, name) adds one block at the end, holding the payload
\* under the given name or under 'Block-%02d' of the new index, and leaves
\* every earlier block as it was.
AppendAddsLast ==
  (Called("append") /\ last.data # SelfRef) =>
    /\ last.err = NoErr
    /\ Len(blocks) = PreLen + 1
    /\ blocks[PreLen + 1] =
         [data |-> last.data,
          name |-> IF last.name = None THEN DefaultName(PreLen) ELSE last.name]
    /\ \A k \in 1..PreLen : blocks[k] = pre.blocks[k]

\* C15 witness: a named append to a container of two blocks, the first of
\* them unnamed.
AppendNamedAfterUnnamed ==
  /\ Returned("append")
  /\ last.name = "n"
  /\ PreLen = 2
  /\ pre.blocks[1].name = None
  /\ blocks[3].name = "n"

\* C16: c.append(c) raises the error of self-containment (a ValueError) and
\* leaves the length, payloads, names and _refs as they were.
AppendSelfRefused ==
  (Called("append") /\ last.data = SelfRef) =>
    /\ last.err = "ValueError"
    /\ self = pre

\* C16 witness: c.append(c) was refused on a container that holds a dataset.
AppendSelfOnFilled ==
  /\ Called("append")
  /\ last.data = SelfRef
  /\ last.err # NoErr
  /\ PreLen >= 1
  /\ refs # {}
\* C17: after any sequence of append, insert, assignment by index, by name
\* and by slice, replace and extend, no block holds the container itself.
NoSelfContainment == \A k \in 1..Len(blocks) : blocks[k].data # SelfRef
\* C18: c == other is true exactly when other is a container of the same
\* length with the same names in order and an equal payload at every
\* position; a comparison with a non-container is false.
EqIffSamePairs ==
  Called("eq") =>
    LET o == last.other
    IN /\ self = pre
       /\ o.kind = "object" => last.eq = FALSE
       /\ o.kind # "object" =>
            (last.eq <=>
               /\ Len(o.blocks) = Len(blocks)
               /\ \A k \in 1..Len(blocks) :
                    /\ o.blocks[k].name = blocks[k].name
                    /\ mesh_value(o.blocks[k].data) = mesh_value(blocks[k].data))

\* C18 witness: a container compared equal to another container that holds
\* a different object of equal value at one position.
EqualToCopy ==
  /\ Called("eq")
  /\ last.eq
  /\ last.other.kind = "MultiBlock"
  /\ Len(blocks) = 2
  /\ \E k \in 1..2 : blocks[k].data = "d1" /\ last.other.blocks[k].data = "d1c"
\* C19: a second clean(empty=True) changes nothing, at any nesting level,
\* in the container the first one left.
CleanIdempotent ==
  Called("clean_clean") =>
    /\ last.err = NoErr
    /\ self = pre

\* C19 witness: the first clean dropped two of three blocks and kept a
\* nested container that still has a block.
CleanTwiceKeptNested ==
  /\ Returned("clean_clean")
  /\ last.idx = 3
  /\ Len(blocks) = 1
  /\ blocks[1].data \in Nested
  /\ heap[blocks[1].data].blocks # <<>>

\* A block that clean(empty=True) drops, h being the nested containers after
\* their own cleaning.
Droppable(b, h) ==
  \/ b.data = None
  \/ b.data \in EmptyData
  \/ (b.data \in Nested /\ h[b.data].blocks = <<>>)

\* C20: clean(empty=True) removes exactly the null blocks, the leaves with no
\* points and the nested containers with no block after their own cleaning;
\* the other blocks keep payload, name and relative order.
CleanDropsExactly ==
  (Called("clean") /\ last.flag) =>
    /\ last.err = NoErr
    /\ blocks = SelectSeq(pre.blocks, LAMBDA b : ~Droppable(b, heap))

\* C20 witness: of three blocks the first, a nested container, and the third
\* were dropped, and the second moved to the front.
CleanDroppedAround ==
  /\ Returned("clean")
  /\ last.flag
  /\ PreLen = 3
  /\ pre.blocks[1].data \in Nested
  /\ Len(blocks) = 1
  /\ blocks[1] = pre.blocks[2]
\* The aggregate the claim describes for blocks bs (h the nested containers):
\* null blocks, leaves without points and nested containers without blocks
\* do not contribute, a nested container contributes its own aggregate.
RECURSIVE Aggregate(_, _)
Aggregate(bs, h) ==
  LET contributes(d) ==
        IF d = None THEN FALSE
        ELSE IF d \in Nested THEN h[d].blocks # <<>>
        ELSE d \notin EmptyData
      boxes == {IF bs[k].data \in Nested THEN Aggregate(h[bs[k].data].blocks, h)
                ELSE leaf_bounds(bs[k].data) :
                  k \in {j \in 1..Len(bs) : contributes(bs[j].data)}}
      lo(a) == SetMin({b[a] : b \in boxes})
      hi(a) == SetMax({b[a] : b \in boxes})
  IN IF boxes = {} THEN <<0, 0, 0, 0, 0, 0>>
     ELSE <<lo(1), hi(2), lo(3), hi(4), lo(5), hi(6)>>

\* C21: the bounds of a container are, per axis, the least lower and the
\* greatest upper bound of its non-null, non-empty blocks, and all zero when
\* no block contributes.
BoundsAggregate ==
  Called("bounds") => last.box = Aggregate(blocks, heap)
\* The leaves of blocks bs at any nesting depth (h the nested containers).
RECURSIVE LeavesOf(_, _)
LeavesOf(bs, h) ==
  UNION {IF bs[k].data = None THEN {}
         ELSE IF bs[k].data \in Nested THEN LeavesOf(h[bs[k].data].blocks, h)
         ELSE {bs[k].data} : k \in 1..Len(bs)}

Scalars(name) ==
  Called("set_active_scalars") /\ last.name = name

\* C22: a call that returns gives the preferred association when some leaf at
\* any depth holds the array under it, and otherwise the association of the
\* first contributing block, which is then the other one.
PreferenceWinsIfOffered ==
  (Scalars("T") /\ last.err = NoErr) =>
     last.assoc = IF \E d \in LeavesOf(blocks, heap) : leaf_has(d, last.pref)
                    THEN last.pref
                    ELSE other_field(last.pref)

PreferenceFoundInDepth ==
  /\ Scalars("T") /\ last.err = NoErr
  /\ last.pref = "cell" /\ last.assoc = "cell"
  /\ Len(blocks) = 2
  /\ blocks[1].data = "p1" /\ blocks[2].data = "m1"
  /\ Len(heap["m1"].blocks) = 1 /\ heap["m1"].blocks[1].data = "m2"
  /\ Len(heap["m2"].blocks) = 1 /\ heap["m2"].blocks[1].data = "c1"
NoBlockHasField ==
  \A d \in LeavesOf(blocks, heap) : ~leaf_has(d, "point") /\ ~leaf_has(d, "cell")

\* C23 as stated: when no block holds the named array, the call fails with
\* KeyError unless allow_missing is set, and then it returns the none
\* association.
MissingEverywhereAllowed ==
  (Scalars("T") /\ NoBlockHasField) =>
     IF last.flag THEN last.err = NoErr /\ last.assoc = "none"
     ELSE last.err = "KeyError"

\* C23 as amended: when no block holds the named array, the call fails with
\* KeyError, with or without allow_missing.
MissingEverywhereFails ==
  (Scalars("T") /\ NoBlockHasField) => last.err = "KeyError"

MissingEverywhereTolerant ==
  /\ Scalars("T") /\ NoBlockHasField
  /\ last.flag
  /\ "d1" \in LeavesOf(blocks, heap)
  /\ last.err = "KeyError"

\* C24: with allow_missing the call succeeds whenever some leaf at any depth
\* holds the array, whatever leaves lack it; without allow_missing one leaf
\* lacking it makes the call fail with KeyError.
MissingLeavesSkipped ==
  Scalars("T") =>
     /\ (last.flag /\ ~NoBlockHasField) => last.err # "KeyError"
     /\ (~last.flag /\ "d1" \in LeavesOf(blocks, heap)) => last.err = "KeyError"

\* What the kth block of the container hands to data_assoc.
BlockResult(k) ==
  block_assoc(self, blocks[k].data, last.name, last.pref, last.flag)

Contributing ==
  {k \in 1..Len(blocks) :
     /\ blocks[k].data # None
     /\ BlockResult(k).err = NoErr
     /\ BlockResult(k).field # "none"}

Winning ==
  IF \E k \in Contributing : BlockResult(k).field = last.pref THEN last.pref
  ELSE other_field(last.pref)

Differ(a, b) == a.ndim # b.ndim \/ a.complex # b.complex

\* C25 as stated: the call fails with ValueError whenever two leaves that
\* hold the array, under whatever association, differ in the number of
\* dimensions or in being complex.
AnyTwoMustAgree ==
  Scalars("T") =>
     \A d, e \in LeavesOf(blocks, heap) :
        (/\ leaf_has(d, "point") \/ leaf_has(d, "cell")
         /\ leaf_has(e, "point") \/ leaf_has(e, "cell")
         /\ Differ(leaf_array(d), leaf_array(e))) => last.err = "ValueError"

\* C25 as amended: when the activation of every block succeeds, the call fails
\* with ValueError whenever two blocks that contribute under the winning
\* association returned arrays that differ in the number of dimensions or in
\* being complex.
WinningMustAgree ==
  (/\ Scalars("T")
   /\ \A k \in 1..Len(blocks) : blocks[k].data # None => BlockResult(k).err = NoErr
   /\ \E i, j \in Contributing :
         /\ BlockResult(i).field = Winning
         /\ BlockResult(j).field = Winning
         /\ Differ(BlockResult(i).scalars, BlockResult(j).scalars))
  => last.err = "ValueError"

ComplexBesideReal ==
  /\ Scalars("T") /\ last.err = "ValueError"
  /\ Len(blocks) = 2
  /\ blocks[1].data = "m1" /\ blocks[2].data = "cz"
  /\ Len(heap["m1"].blocks) = 1 /\ heap["m1"].blocks[1].data = "c1"
\* Every block of the created container id is a surface leaf or a created
\* container of which the same holds.
RECURSIVE AllSurface(_, _)
AllSurface(res, id) ==
  \A k \in 1..Len(res[id].blocks) :
     LET d == res[id].blocks[k].data
     IN /\ d # None
        /\ d \notin PointSets \cup Volumes \cup Objects
        /\ d \in Copies => AllSurface(res, d)

\* C26: as_polydata_blocks returns a container of the same length whose
\* blocks, at every depth, are surface datasets and none null, on which
\* is_all_polydata is true; the original container, its names and its nested
\* containers are as before.
SurfaceCopyLeavesOriginal ==
  Called("as_polydata_blocks") =>
     /\ Len(last.res["selfp"].blocks) = Len(pre.blocks)
     /\ AllSurface(last.res, "selfp")
     /\ last.eq
     /\ self = pre

SurfaceOfNullAndNested ==
  /\ Called("as_polydata_blocks")
  /\ Len(blocks) = 2
  /\ blocks[1].data = None /\ blocks[2].data = "m1"
  /\ Len(heap["m1"].blocks) = 1 /\ heap["m1"].blocks[1].data = "ug"
  /\ last.res["selfp"].blocks[1].data = NewPolyData
  /\ last.res["selfp"].blocks[2].data = "m1p"
  /\ last.res["m1p"].blocks[1].data = "ug_surface"
\* C27: c[name] = payload replaces the payload of the first slot named name,
\* which keeps its name, the length staying the same; with no such slot it
\* appends the payload as a new last slot named name; either way c[name]
\* then gives the payload.
NameAssignment ==
  Called("setitem_str") =>
     LET p == FirstNamed(pre.blocks, last.name)
         n == Len(pre.blocks)
     IN /\ last.err = NoErr
        /\ IF p > 0
             THEN /\ Len(blocks) = n
                  /\ blocks[p] = [data |-> last.data, name |-> last.name]
             ELSE /\ Len(blocks) = n + 1
                  /\ SubSeq(blocks, 1, n) = pre.blocks
                  /\ blocks[n + 1] = [data |-> last.data, name |-> last.name]
        /\ blocks[FirstNamed(blocks, last.name)].data = last.data

NameAssignedAmongDuplicates ==
  /\ Called("setitem_str") /\ last.name = "n" /\ last.data = "d1"
  /\ Len(pre.blocks) = 3
  /\ pre.blocks[1].name # "n"
  /\ pre.blocks[2] = [data |-> "d2", name |-> "n"]
  /\ pre.blocks[3].name = "n"
  /\ blocks[2].data = "d1"
\* C28: an assignment to an index or to a slice that raises leaves the
\* container, its names and its retention table as they were.
FailedAssignmentChangesNothing ==
  ((Called("setitem") \/ Called("setitem_slice")) /\ last.err # NoErr) => self = pre
\* The blocks of the container handed to the observed extend.
Extension == IF last.other.kind = "self" THEN pre.blocks ELSE last.other.blocks

\* C29: c.extend(d), d a container, leaves c's blocks followed by d's, in
\* d's order and under d's names; with d the container itself the call
\* returns with the length doubled.
ExtendAppendsPairs ==
  Called("extend_multiblock") =>
     /\ last.err = NoErr
     /\ blocks = pre.blocks \o Extension
\* The nested containers found in blocks bs at any depth.
RECURSIVE NestedIn(_, _)
NestedIn(bs, h) ==
  UNION {IF bs[k].data \in Nested
           THEN {bs[k].data} \cup NestedIn(h[bs[k].data].blocks, h)
           ELSE {} : k \in 1..Len(bs)}

\* Blocks bs without the null blocks and without the nested containers that
\* have no block once compacted the same way.
RECURSIVE Compacted(_, _)
Compacted(bs, h) ==
  SelectSeq(bs, LAMBDA b :
    /\ b.data # None
    /\ b.data \in Nested => Compacted(h[b.data].blocks, h) # <<>>)

\* C30: clean(empty=False) removes the null blocks and the nested containers
\* left without a block, and nothing else: leaves without points stay, in the
\* container and in the nested containers at any depth.
CleanKeepsEmptyLeaves ==
  (Called("clean") /\ ~last.flag) =>
    /\ last.err = NoErr
    /\ blocks = Compacted(pre.blocks, pre.heap)
    /\ \A mb \in NestedIn(pre.blocks, pre.heap) :
          heap[mb].blocks = Compacted(pre.heap[mb].blocks, pre.heap)

\* C31: a slice assignment with a step other than 1 and a sequence that is
\* not as long as the resolved positions are many raises an error, and no
\* block is inserted or deleted.
SteppedMismatchRejected ==
  (Called("setitem_slice") /\ ~UnitStep /\ Len(last.seq) # Len(Target)) =>
    /\ last.err # NoErr
    /\ Len(blocks) = Len(pre.blocks)

\* The least and the greatest value over the leaves in S that hold the array.
RangeOver(S) ==
  LET has == S \cap RangeLeaves
      r(d) == leaf_get_data_range(d, "T").range
  IN IF has = {} THEN NoRange
     ELSE [found |-> TRUE, lo |-> SetMin({r(d).lo : d \in has}),
           hi |-> SetMax({r(d).hi : d \in has})]

\* C32: get_data_range(name, allow_missing=True) returns the least and the
\* greatest value of the array over every leaf, at any depth, that holds it.
RangeOverEveryHolder ==
  (Called("get_data_range") /\ last.flag) =>
    /\ last.err = NoErr
    /\ last.range = RangeOver(LeavesOf(blocks, heap))

\* The association leaf d activates the array under, given the preference.
Activated(d, preference) ==
  IF leaf_has(d, preference) THEN preference
  ELSE IF leaf_has(d, other_field(preference)) THEN other_field(preference)
  ELSE "none"

\* C33: the array a call returns with a point or cell association is the
\* array of a leaf of the container that activated it under that association.
ArrayMatchesAssociation ==
  (Scalars("T") /\ last.err = NoErr /\ last.assoc # "none") =>
    /\ last.arr.of \in LeavesOf(blocks, heap)
    /\ Activated(last.arr.of, last.pref) = last.assoc

\* C34: the container as_polydata_blocks returns has the keys() of the
\* original, also where the original held a null block.
SurfaceKeepsNames ==
  Called("as_polydata_blocks") =>
    keys(last.res["selfp"]) = keys(pre)

\* C35: when the container holds a leaf at some depth, its bounds are, per
\* axis, the least lower and the greatest upper bound of the leaves it holds
\* at any depth; a nested container of null blocks only adds nothing.
BoundsOfLeavesOnly ==
  (Called("bounds") /\ LeavesOf(blocks, heap) # {}) =>
    LET boxes == {leaf_bounds(d) : d \in LeavesOf(blocks, heap)}
        lo(a) == SetMin({b[a] : b \in boxes})
        hi(a) == SetMax({b[a] : b \in boxes})
    IN last.box = <<lo(1), hi(2), lo(3), hi(4), lo(5), hi(6)>>
====
